---- MODULE Spec2Model ----
(***************************************************************************)
(* Model of the NTP/MQTT LED clock sketch (src/ClockDriver.ino, 1-402):    *)
(* the glyph tables, the segment renderer, the time decomposer with its    *)
(* incremental redraw, and the MQTT control callback.                      *)
(***************************************************************************)
EXTENDS Integers, Sequences, FiniteSets, TLC

VARIABLES leds,             \* CRGBW leds[NUM_LEDS]
          oldHour,          \* uint8_t oldHour
          oldMinute,        \* uint8_t oldMinute
          brightness,       \* uint8_t brightness
          oldBrightness,    \* uint8_t oldBrightness
          masterState,      \* bool masterState
          stripBrightness,  \* the value last given to FastLED.setBrightness
          configured,       \* value of the latest well-formed Brightness message
          obs,              \* record of the operation that ran last
          nCalls,           \* number of direct renderer calls made so far
          pc,               \* where setup() and loop() stand
          testStep,         \* index of the next pattern of pixelTest
          now,              \* the time the time source holds
          pastSecond,       \* uint8_t pastSecond
          args,             \* the arguments read so far for setClockTime
          connected,        \* whether the MQTT session is established
          timer,            \* one call of delayWithMQTT: its locals and millis()
          watch,            \* what loop() saw and did since its last render
          nMsgs,            \* number of messages handed to callback in loop()
          nTocks            \* number of seconds the time source has advanced

loopVars == <<pc, testStep, now, pastSecond, args, connected,
              timer, watch, nMsgs,
              nTocks>>

vars == <<leds, oldHour, oldMinute, brightness, oldBrightness, masterState,
          stripBrightness, configured, obs, nCalls, pc, testStep, now,
          pastSecond, args, connected, timer, watch, nMsgs, nTocks>>

(***************************************************************************)
(* Bounds of the model.                                                    *)
(***************************************************************************)
\* direct setClockSegment calls explored one after another in SpecSegment
MaxCalls == 1

\* seconds the time source advances while loop() runs
MaxTocks == 3

\* messages handed to callback while loop() runs
MaxMessages == 2

(***************************************************************************)
(* Static data.                                                            *)
(***************************************************************************)
NUM_LEDS == 214

\* columns of one row of numberMap
MapWidth == 50

\* the initialisers written for each row of numberMap, digit 0 first
numberMapInit ==
  << <<0, 1, 2, 3, 4, 5, 6, 7, 8, 9, 10, 11, 12, 13, 14, 15, 16, 17, 18, 19,
       25, 26, 27, 28, 29, 30, 31, 32, 33, 34>>,
     <<0, 1, 2, 3, 4, 5, 6, 7, 8, 9>>,
     <<5, 6, 7, 8, 9, 10, 11, 12, 13, 14, 20, 21, 22, 23, 24, 25, 26, 27, 28,
       29, 30, 31, 32, 33, 34>>,
     <<0, 1, 2, 3, 4, 5, 6, 7, 8, 9, 10, 11, 12, 13, 14, 20, 21, 22, 23, 24,
       30, 31, 32, 33, 34>>,
     <<0, 1, 2, 3, 4, 5, 6, 7, 8, 9, 15, 16, 17, 18, 19, 20, 21, 22, 23, 24>>,
     <<0, 1, 2, 3, 4, 10, 11, 12, 13, 14, 15, 16, 17, 18, 19, 20, 21, 22, 23,
       24, 30, 31, 32, 33, 34>>,
     <<0, 1, 2, 3, 4, 10, 11, 12, 13, 14, 15, 16, 17, 18, 19, 20, 21, 22, 23,
       24, 25, 26, 27, 28, 29, 30, 31, 32, 33, 34>>,
     <<0, 1, 2, 3, 4, 5, 6, 7, 8, 9, 10, 11, 12, 13, 14>>,
     <<0, 1, 2, 3, 4, 5, 6, 7, 8, 9, 10, 11, 12, 13, 14, 15, 16, 17, 18, 19,
       20, 21, 22, 23, 24, 25, 26, 27, 28, 29, 30, 31>>,
     <<0, 1, 2, 3, 4, 5, 6, 7, 8, 9, 10, 11, 12, 13, 14, 15, 16, 17, 18, 19,
       20, 21, 22, 23, 24>> >>

\* const int numberMap[10][50]: columns without an initialiser hold 0
numberMap ==
  [v \in 0..9 |->
     [k \in 0..(MapWidth - 1) |->
        IF k < Len(numberMapInit[v + 1]) THEN numberMapInit[v + 1][k + 1]
                                         ELSE 0]]

digitMapWide == <<0, 35, 70, 105, 140, 175, 220>>

digitMapInit == <<0, 35, 70, 105, 140, 175, 210>>

\* uint8_t digitMap[]
digitMap == [i \in 0..6 |-> digitMapInit[i + 1]]

(***************************************************************************)
(* Colours.  A CRGB is <<r, g, b>>, a CRGBW pixel is <<r, g, b, w>>.       *)
(***************************************************************************)
White == <<255, 255, 255>>
Black == <<0, 0, 0>>
Red   == <<255, 0, 0>>

PixelOn  == <<0, 0, 0, 255>>
PixelOff == <<0, 0, 0, 0>>

\* CRGBW = CRGB keeps the three colour channels and clears the white one
FromRGB(c) == <<c[1], c[2], c[3], 0>>

(***************************************************************************)
(* The renderer works on a record st = [leds, shows, writes, mid, ...]:    *)
(* the pixel buffer, the number of FastLED.show() calls and of pixel       *)
(* writes made so far, and whether a show was followed by a pixel write;   *)
(* lo and hi are the least and greatest pixel index written, tracker the   *)
(* greatest column of numberMap read.                                      *)
(***************************************************************************)
Fresh(buf) ==
  [leds |-> buf, shows |-> 0, writes |-> 0, mid |-> FALSE,
   lo |-> NUM_LEDS, hi |-> -1, tracker |-> -1]

\* the smaller and the larger of two numbers
Min(x, y) == IF x < y THEN x ELSE y
Max(x, y) == IF x > y THEN x ELSE y

\* st after a read of column arrayTracker of numberMap
Reads(st, arrayTracker) == [st EXCEPT !.tracker = Max(@, arrayTracker)]

\* controlPixel with += in place of = in the white branch
controlPixelAdds(st, pixelNumber, color) ==
  [leds   |-> [st.leds EXCEPT ![pixelNumber] =
                 IF color = White
                   THEN <<@[1], @[2], @[3], (@[4] + 255) % 256>>
                   ELSE FromRGB(color)],
   shows  |-> st.shows + 1,
   writes |-> st.writes + 1,
   mid    |-> st.mid \/ st.shows > 0,
   lo     |-> Min(st.lo, pixelNumber),
   hi     |-> Max(st.hi, pixelNumber),
   tracker |-> st.tracker]

\* void controlPixel(int pixelNumber, CRGB color)
controlPixel(st, pixelNumber, color) ==
  [leds   |-> [st.leds EXCEPT ![pixelNumber] =
                 IF color = White THEN PixelOn ELSE FromRGB(color)],
   shows  |-> st.shows + 1,
   writes |-> st.writes + 1,
   mid    |-> st.mid \/ st.shows > 0,
   lo     |-> Min(st.lo, pixelNumber),
   hi     |-> Max(st.hi, pixelNumber),
   tracker |-> st.tracker]

RECURSIVE PixelLoopStuck(_, _, _, _, _, _)
PixelLoopStuck(st, segment, time, a, arrayTracker, arrayOffset) ==
  IF st.writes >= 0 /\ a < digitMap[segment + 1]
    THEN IF numberMap[time][arrayTracker] = arrayOffset
           THEN PixelLoopStuck(controlPixel(Reads(st, arrayTracker), a, White),
                   segment, time,
                               a + 1, arrayTracker, arrayOffset + 1)
           ELSE PixelLoopStuck(controlPixel(Reads(st, arrayTracker), a, Black),
                   segment, time,
                               a + 1, arrayTracker, arrayOffset + 1)
    ELSE st

RECURSIVE PixelLoopOver(_, _, _, _, _, _)
PixelLoopOver(st, segment, time, a, arrayTracker, arrayOffset) ==
  IF st.writes >= 0 /\ a <= digitMap[segment + 1]
    THEN IF numberMap[time][arrayTracker] = arrayOffset
           THEN PixelLoopOver(controlPixel(Reads(st, arrayTracker), a, White),
                   segment, time,
                              a + 1, arrayTracker + 1, arrayOffset + 1)
           ELSE PixelLoopOver(controlPixel(Reads(st, arrayTracker), a, Black),
                   segment, time,
                              a + 1, arrayTracker, arrayOffset + 1)
    ELSE st

\* the pixel loop of setClockSegment (st.writes >= 0 always holds: testing
\* it makes TLC evaluate st before the loop goes on)
RECURSIVE PixelLoop(_, _, _, _, _, _)
PixelLoop(st, segment, time, a, arrayTracker, arrayOffset) ==
  IF st.writes >= 0 /\ a < digitMap[segment + 1]
    THEN IF numberMap[time][arrayTracker] = arrayOffset
           THEN PixelLoop(controlPixel(Reads(st, arrayTracker), a, White),
                   segment, time,
                          a + 1, arrayTracker + 1, arrayOffset + 1)
           ELSE PixelLoop(controlPixel(Reads(st, arrayTracker), a, Black),
                   segment, time,
                          a + 1, arrayTracker, arrayOffset + 1)
    ELSE st

\* void setClockSegment(int segment, int time)
setClockSegment(st, segment, time) ==
  PixelLoop(st, segment, time, digitMap[segment], 0, 0)

(***************************************************************************)
(* What a digit position shows.                                            *)
(***************************************************************************)
Positions == 0..5
Digits    == 0..9

\* the offsets listed for digit v
Listed(v) == {numberMapInit[v + 1][k] : k \in 1..Len(numberMapInit[v + 1])}

\* position p of buffer buf shows exactly the glyph of digit v
ShowsGlyph(buf, p, v) ==
  \A a \in digitMap[p]..(digitMap[p + 1] - 1) :
     buf[a] = IF (a - digitMap[p]) \in Listed(v) THEN PixelOn ELSE PixelOff

(***************************************************************************)
(* SpecSegment: the renderer alone, from arbitrary buffer contents.        *)
(***************************************************************************)
AllPixels == 0..(NUM_LEDS - 1)

\* buffer buf with digit v drawn in every position
RECURSIVE DrawAll(_, _, _)
DrawAll(buf, p, v) ==
  IF p > 5 THEN buf
           ELSE DrawAll(setClockSegment(Fresh(buf), p, v).leds, p + 1, v)

InitialBuffers ==
  { [i \in AllPixels |-> PixelOff],
    [i \in AllPixels |-> PixelOn],
    [i \in AllPixels |-> FromRGB(Red)],
    [i \in AllPixels |-> IF i % 2 = 0 THEN PixelOn ELSE <<7, 7, 7, 7>>],
    DrawAll([i \in AllPixels |-> PixelOff], 0, 8),
    DrawAll([i \in AllPixels |-> PixelOff], 0, 1) }

Idle == [op |-> "none"]

\* no argument of setClockTime has been read
Unread == [h |-> -1, m |-> -1, s |-> -1]

\* what loop() has seen and done before its first pass
NothingSeen ==
  [seen |-> -1, past |-> -1, serviced |-> FALSE, rendered |-> FALSE]

\* the time source when the program starts
StartTime == [h |-> 10, m |-> 59, s |-> 58]

\* delayWithMQTT is not being looked at
NoTimer == [pc |-> "none"]

\* loop() is about to start, setup() has read the second of StartTime
LoopAtRest ==
  /\ pc = "top"
  /\ testStep = 0
  /\ now = StartTime
  /\ pastSecond = StartTime.s
  /\ args = Unread
  /\ connected = TRUE
  /\ timer = NoTimer
  /\ watch = NothingSeen
  /\ nMsgs = 0
  /\ nTocks = 0

InitSegment ==
  /\ leds \in InitialBuffers
  /\ oldHour = 0
  /\ oldMinute = 0
  /\ brightness = 128
  /\ oldBrightness = 100
  /\ masterState = TRUE
  /\ stripBrightness = 128
  /\ configured = 128
  /\ obs = Idle
  /\ nCalls = 0
  /\ LoopAtRest

SegmentCall(p, v) ==
  /\ nCalls < MaxCalls
  /\ \E st \in {setClockSegment(Fresh(leds), p, v)} :
         /\ leds' = st.leds
         /\ obs' = [op |-> "segment", segment |-> p, time |-> v,
                    before |-> leds, shows |-> st.shows,
                    writes |-> st.writes, mid |-> st.mid,
                    repeated |-> FALSE]
  /\ nCalls' = nCalls + 1
  /\ UNCHANGED <<oldHour, oldMinute, brightness, oldBrightness, masterState,
                 stripBrightness, configured>>
  /\ UNCHANGED loopVars

\* the call that was just made is made once more with the same arguments
SegmentRepeat ==
  /\ obs.op = "segment"
  /\ ~obs.repeated
  /\ \E st \in {setClockSegment(Fresh(leds), obs.segment, obs.time)} :
         /\ leds' = st.leds
         /\ obs' = [obs EXCEPT !.before = leds, !.shows = st.shows,
                               !.writes = st.writes, !.mid = st.mid,
                               !.repeated = TRUE]
  /\ UNCHANGED <<oldHour, oldMinute, brightness, oldBrightness, masterState,
                 stripBrightness, configured, nCalls>>
  /\ UNCHANGED loopVars

NextSegment ==
  \/ \E p \in Positions, v \in Digits : SegmentCall(p, v)
  \/ SegmentRepeat

SpecSegment == InitSegment /\ [][NextSegment]_vars

\* C1: after setClockSegment(p, v), whatever the buffer held before, the
\* pixels of position p that are on are exactly digitMap[p] + o for the
\* offsets o listed in numberMap[v], and the rest of the range is off.
C1_GlyphExact ==
  obs.op = "segment" => ShowsGlyph(leds, obs.segment, obs.time)

\* a digit 8 was drawn in the last position over a buffer that was all on
C1_Witness ==
  /\ obs.op = "segment"
  /\ obs.segment = 5
  /\ obs.time = 8
  /\ obs.before[209] = PixelOn
  /\ leds[209] = PixelOff
  /\ leds[175] = PixelOn

\* C13: calling setClockSegment(p, v) twice in a row gives the same pixel
\* buffer as calling it once.
C13_Idempotent ==
  (obs.op = "segment" /\ obs.repeated) => leds = obs.before

\* a 2 was drawn twice in position 3 over a buffer whose pixels were all on
C13_Witness ==
  /\ obs.op = "segment"
  /\ obs.repeated
  /\ obs.segment = 3 /\ obs.time = 2
  /\ leds[105] = PixelOff
  /\ leds[110] = PixelOn
  /\ leds[0] = PixelOn

\* the local offsets of segment k of a digit, k in 0..6
SegmentOffsets(k) == (5 * k)..(5 * k + 4)

\* C23: for the digit v that setClockSegment draws and every segment k in
\* 0..6, numberMap[v] lists all five offsets 5k..5k+4 or none of them, and
\* the digit drawn has every segment wholly lit or wholly dark.
C23_WholeSegments ==
  obs.op = "segment" =>
    \A k \in 0..6 :
       /\ \/ SegmentOffsets(k) \subseteq Listed(obs.time)
          \/ SegmentOffsets(k) \cap Listed(obs.time) = {}
       /\ \/ \A o \in SegmentOffsets(k) :
                leds[digitMap[obs.segment] + o] = PixelOn
          \/ \A o \in SegmentOffsets(k) :
                leds[digitMap[obs.segment] + o] = PixelOff

(***************************************************************************)
(* The time decomposer.  It works on a record                              *)
(* r = [st, oldHour, oldMinute, calls]: the renderer state, the two        *)
(* trackers and the list of <<segment, time>> renderer calls it has made.  *)
(***************************************************************************)
uint8(x) == x % 256

\* one setClockSegment call made by setClockTime
Seg(r, segment, time) ==
  [r EXCEPT !.st = setClockSegment(r.st, segment, time),
            !.calls = Append(r.calls, <<segment, time>>)]

Seconds(r, second) ==
  Seg(Seg(r, 0, second % 10), 1, (second \div 10) % 10)

Minutes(r, minute) ==
  Seg(Seg(r, 2, minute % 10), 3, (minute \div 10) % 10)

Hours(r, hour) ==
  Seg(Seg(r, 4, hour % 10), 5, (hour \div 10) % 10)

HoursSwapped(r, hour) ==
  Seg(Seg(r, 4, (hour \div 10) % 10), 5, hour % 10)

setClockTimeSwapped(r, hour, minute, second) ==
  IF r.oldMinute = minute
    THEN Seconds(r, second)
    ELSE IF r.oldHour = hour
      THEN [Minutes(Seconds(r, second), minute)
              EXCEPT !.oldMinute = uint8(minute)]
      ELSE [HoursSwapped(Minutes(Seconds(r, second), minute), hour)
              EXCEPT !.oldMinute = uint8(minute), !.oldHour = uint8(hour)]

setClockTimeKeepsHour(r, hour, minute, second) ==
  IF r.oldMinute = minute
    THEN Seconds(r, second)
    ELSE IF r.oldHour = hour
      THEN [Minutes(Seconds(r, second), minute)
              EXCEPT !.oldMinute = uint8(minute)]
      ELSE [Hours(Minutes(Seconds(r, second), minute), hour)
              EXCEPT !.oldMinute = uint8(minute)]

\* void setClockTime(int hour, int minute, int second)
setClockTime(r, hour, minute, second) ==
  IF r.oldMinute = minute
    THEN Seconds(r, second)
    ELSE IF r.oldHour = hour
      THEN [Minutes(Seconds(r, second), minute)
              EXCEPT !.oldMinute = uint8(minute)]
      ELSE [Hours(Minutes(Seconds(r, second), minute), hour)
              EXCEPT !.oldMinute = uint8(minute), !.oldHour = uint8(hour)]

\* the pixels lo..hi of colorFill's loop, in increasing order (the test of
\* st.writes makes TLC evaluate st before it descends, and never holds)
RECURSIVE colorFillRange(_, _, _, _)
colorFillRange(st, c, lo, hi) ==
  IF lo > hi \/ st.writes < 0 THEN st
  ELSE IF lo = hi THEN controlPixel(st, lo, c)
  ELSE LET half == (lo + hi) \div 2
       IN  colorFillRange(colorFillRange(st, c, lo, half), c, half + 1, hi)

\* void colorFill(CRGB c, int speed)
colorFill(st, c) == colorFillRange(st, c, 0, NUM_LEDS - 1)

TestPatternShort == <<0, 11, 22>>

\* the times shown one after another by pixelTest
TestPattern == <<0, 11, 22, 33, 44, 55, 66, 77, 88, 99>>

RECURSIVE pixelTestFrom(_, _)
pixelTestFrom(r, k) ==
  IF r.st.writes >= 0 /\ k <= Len(TestPattern)
    THEN pixelTestFrom(setClockTime(r, TestPattern[k], TestPattern[k],
                                    TestPattern[k]), k + 1)
    ELSE [r EXCEPT !.st = colorFill(r.st, Black)]

\* void pixelTest(), run on the zero-initialised globals
pixelTest ==
  pixelTestFrom([st |-> Fresh([i \in AllPixels |-> PixelOff]),
                 oldHour |-> 0, oldMinute |-> 0, calls |-> <<>>], 1)

(***************************************************************************)
(* SpecTick: the state left by setup(), then any sequence of ticks.        *)
(***************************************************************************)
\* the times of day the ticks are drawn from
HourSamples   == {10, 11, 23}
MinuteSamples == {0, 12, 13, 59}
SecondSamples == {0, 9}

\* the state after setup()
Init ==
  /\ leds = pixelTest.st.leds
  /\ oldHour = pixelTest.oldHour
  /\ oldMinute = pixelTest.oldMinute
  /\ brightness = 128
  /\ oldBrightness = 100
  /\ masterState = TRUE
  /\ stripBrightness = 128
  /\ configured = 128
  /\ obs = Idle
  /\ nCalls = 0
  /\ LoopAtRest

\* one call setClockTime(hour, minute, second)
Tick(hour, minute, second) ==
  /\ \E r \in {setClockTime([st |-> Fresh(leds), oldHour |-> oldHour,
                               oldMinute |-> oldMinute, calls |-> <<>>],
                              hour, minute, second)} :
         /\ leds' = r.st.leds
         /\ oldHour' = r.oldHour
         /\ oldMinute' = r.oldMinute
         /\ obs' = [op |-> "tick", hour |-> hour, minute |-> minute,
                    second |-> second, preHour |-> oldHour,
                    preMinute |-> oldMinute, calls |-> r.calls,
                    shows |-> r.st.shows, writes |-> r.st.writes,
                    mid |-> r.st.mid, lo |-> r.st.lo, hi |-> r.st.hi,
                    tracker |-> r.st.tracker,
                    on |-> masterState, inLoop |-> pc = "render",
                    first |-> ~watch.rendered, past |-> pastSecond,
                    seen |-> watch.seen, seenPast |-> watch.past,
                    serviced |-> watch.serviced]
  /\ UNCHANGED <<brightness, oldBrightness, masterState, stripBrightness,
                 configured, nCalls>>

NextTick ==
  \E hour \in HourSamples, minute \in MinuteSamples, second \in SecondSamples :
     /\ Tick(hour, minute, second)
     /\ watch' = [watch EXCEPT !.rendered = TRUE]
     /\ UNCHANGED <<pc, testStep, now, pastSecond, args, connected,
                    timer, nMsgs,
                    nTocks>>

SpecTick == Init /\ [][NextTick]_vars

\* position p was redrawn by the last tick
Redrawn(p) == \E k \in 1..Len(obs.calls) : obs.calls[k][1] = p

\* the six positions of buf show hour:minute:second
ShowsTime(buf, hour, minute, second) ==
  /\ ShowsGlyph(buf, 0, second % 10)
  /\ ShowsGlyph(buf, 1, second \div 10)
  /\ ShowsGlyph(buf, 2, minute % 10)
  /\ ShowsGlyph(buf, 3, minute \div 10)
  /\ ShowsGlyph(buf, 4, hour % 10)
  /\ ShowsGlyph(buf, 5, hour \div 10)

\* C2: on every tick the second positions are redrawn, the minute positions
\* are redrawn exactly when minute differs from the previously rendered
\* minute, and the hour positions exactly when hour differs from the
\* previously rendered hour, whatever the minute comparison gives.
C2_MaskPerField ==
  obs.op = "tick" =>
    /\ Redrawn(0) /\ Redrawn(1)
    /\ \A p \in {2, 3} : Redrawn(p) <=> (obs.minute # obs.preMinute)
    /\ \A p \in {4, 5} : Redrawn(p) <=> (obs.hour # obs.preHour)

\* C3: when a tick returns, all six positions show that tick's time.
C3_NoStaleDigits ==
  obs.op = "tick" => ShowsTime(leds, obs.hour, obs.minute, obs.second)

\* C6: when a tick returns, oldMinute and oldHour equal the minute and the
\* hour that were just rendered.
C6_TrackersSynced ==
  obs.op = "tick" => (oldMinute = obs.minute /\ oldHour = obs.hour)

\* C7: during one tick the buffer is pushed to the hardware exactly once,
\* after the last pixel write; no push lies between two pixel writes.
C7_OneFlushPerTick ==
  obs.op = "tick" => (obs.shows = 1 /\ ~obs.mid)

\* C8: a tick that redraws all six positions passes to setClockSegment the
\* base-10 split of each field taken on its own, and each position then
\* shows the full glyph of its digit, a tens digit of 0 included.
C8_Decomposition ==
  (obs.op = "tick" /\ \A p \in Positions : Redrawn(p)) =>
    /\ obs.calls = << <<0, obs.second % 10>>, <<1, obs.second \div 10>>,
                      <<2, obs.minute % 10>>, <<3, obs.minute \div 10>>,
                      <<4, obs.hour % 10>>,   <<5, obs.hour \div 10>> >>
    /\ ShowsTime(leds, obs.hour, obs.minute, obs.second)

\* 23:59:09 was rendered in full: tens of the second is a full glyph of 0
C8_Witness ==
  /\ obs.op = "tick"
  /\ obs.hour = 23 /\ obs.minute = 59 /\ obs.second = 9
  /\ Len(obs.calls) = 6
  /\ ShowsGlyph(leds, 1, 0)
  /\ ShowsGlyph(leds, 5, 2)

\* C9: a tick H':00:00 that follows a rendered H:59 with H' # H redraws all
\* six positions; the buffer then shows H':00:00 and the trackers hold H', 0.
C9_HourRollover ==
  (/\ obs.op = "tick"
   /\ obs.preMinute = 59
   /\ obs.minute = 0 /\ obs.second = 0
   /\ obs.hour # obs.preHour) =>
    /\ \A p \in Positions : Redrawn(p)
    /\ ShowsTime(leds, obs.hour, 0, 0)
    /\ oldHour = obs.hour
    /\ oldMinute = 0

\* 11:00:00 was rendered right after a time of 10:59
C9_Witness ==
  /\ obs.op = "tick"
  /\ obs.preHour = 10 /\ obs.preMinute = 59
  /\ obs.hour = 11 /\ obs.minute = 0 /\ obs.second = 0
  /\ oldHour = 11

\* C18: setup() leaves every pixel off and the trackers at values no time of
\* day has, so the first tick redraws all six positions and the buffer
\* shows its time.
C18_FirstTickDrawsAll ==
  /\ obs.op = "none" =>
        /\ \A a \in AllPixels : leds[a] = PixelOff
        /\ oldHour \notin 0..23
        /\ oldMinute \notin 0..59
  /\ (obs.op = "tick" /\ obs.first) =>
        /\ \A p \in Positions : Redrawn(p)
        /\ ShowsTime(leds, obs.hour, obs.minute, obs.second)

\* the first tick rendered 23:12:09 on the blank face
C18_Witness ==
  /\ obs.op = "tick"
  /\ obs.first
  /\ obs.preHour = 99 /\ obs.preMinute = 99
  /\ obs.hour = 23 /\ obs.minute = 12 /\ obs.second = 9
  /\ ShowsGlyph(leds, 5, 2)

(***************************************************************************)
(* The MQTT callback.  Text is a sequence of one-character strings.        *)
(***************************************************************************)
BrightnessTopic == "LEDClock/Brightness"
StateTopic      == "LEDClock/State"

DigitChar == <<"0", "1", "2", "3", "4", "5", "6", "7", "8", "9">>

IsDigit(c) == \E d \in 1..10 : DigitChar[d] = c

DigitValue(c) == (CHOOSE d \in 1..10 : DigitChar[d] = c) - 1

TrueWord  == <<"t", "r", "u", "e">>
FalseWord == <<"f", "a", "l", "s", "e">>

\* the run of digits of s that starts at index i, read as a decimal number
RECURSIVE atolDigits(_, _, _)
atolDigits(s, i, acc) ==
  IF i <= Len(s) /\ IsDigit(s[i])
    THEN atolDigits(s, i + 1, acc * 10 + DigitValue(s[i]))
    ELSE acc

RECURSIVE SkipSpaces(_, _)
SkipSpaces(s, i) ==
  IF i <= Len(s) /\ s[i] = " " THEN SkipSpaces(s, i + 1) ELSE i

\* String::toInt(): leading blanks, an optional sign, then the digits;
\* 0 when no digit is there
toInt(s) ==
  LET i == SkipSpaces(s, 1)
  IN  IF i <= Len(s) /\ s[i] = "-" THEN 0 - atolDigits(s, i + 1, 0)
      ELSE IF i <= Len(s) /\ s[i] = "+" THEN atolDigits(s, i + 1, 0)
      ELSE atolDigits(s, i, 0)

\* String(buffer): buffer holds the payload and no terminator, so the text
\* runs on through the bytes that follow it in memory, up to the first NUL
StringOf(payload, tail) == payload \o tail

\* the Brightness handler of callback
BrightnessHandler(c, topic, message) ==
  IF topic = BrightnessTopic
    THEN [c EXCEPT !.brightness = uint8(toInt(message)),
                   !.oldBrightness = uint8(toInt(message)),
                   !.stripBrightness = uint8(toInt(message))]
    ELSE c

StateHandlerKeepsOff(c, topic, message) ==
  IF topic = StateTopic
    THEN IF message = TrueWord
           THEN [c EXCEPT !.brightness = c.oldBrightness,
                          !.stripBrightness = c.oldBrightness]
           ELSE [c EXCEPT !.oldBrightness = c.brightness,
                          !.brightness = 0,
                          !.stripBrightness = 0,
                          !.masterState = FALSE]
    ELSE c

\* the State handler of callback
StateHandler(c, topic, message) ==
  IF topic = StateTopic
    THEN IF message = TrueWord
           THEN [c EXCEPT !.brightness = c.oldBrightness,
                          !.stripBrightness = c.oldBrightness,
                          !.masterState = TRUE]
           ELSE [c EXCEPT !.oldBrightness = c.brightness,
                          !.brightness = 0,
                          !.stripBrightness = 0,
                          !.masterState = FALSE]
    ELSE c

\* void callback(char topic[], unsigned char payload[], unsigned int length)
callback(c, topic, payload, tail) ==
  StateHandler(BrightnessHandler(c, topic, StringOf(payload, tail)),
               topic, StringOf(payload, tail))

(***************************************************************************)
(* SpecControl: the state left by setup(), then any sequence of messages   *)
(* delivered to callback.                                                  *)
(***************************************************************************)
\* decimal text of n, as the publisher writes it
RECURSIVE Dec(_)
Dec(n) ==
  IF n < 10 THEN <<DigitChar[n + 1]>>
            ELSE Append(Dec(n \div 10), DigitChar[(n % 10) + 1])

\* the brightness values published
BrightnessSamples == {0, 7, 128, 255}

Topics == {BrightnessTopic, StateTopic}

Payloads ==
  {Dec(n) : n \in BrightnessSamples}
    \cup {Dec(300), <<"a", "b", "c">>, <<>>}
    \cup {TrueWord, FalseWord, <<"t", "r", "u">>}

\* the bytes found after the payload, up to the first NUL
Tails == {<<>>, <<"7">>, <<"e">>}

\* the number a well-formed brightness payload stands for, else -1
PayloadValue(payload) ==
  IF \E n \in BrightnessSamples : Dec(n) = payload
    THEN CHOOSE n \in BrightnessSamples : Dec(n) = payload
    ELSE -1

\* client.loop() hands one message to callback
Message(topic, payload, tail) ==
  /\ \E c \in {callback([brightness |-> brightness,
                          oldBrightness |-> oldBrightness,
                          stripBrightness |-> stripBrightness,
                          masterState |-> masterState],
                         topic, payload, tail)} :
        /\ brightness' = c.brightness
        /\ oldBrightness' = c.oldBrightness
        /\ stripBrightness' = c.stripBrightness
        /\ masterState' = c.masterState
  /\ configured' = IF topic = BrightnessTopic /\ PayloadValue(payload) >= 0
                     THEN PayloadValue(payload)
                     ELSE configured
  /\ obs' = [op |-> "msg", topic |-> topic, payload |-> payload,
             tail |-> tail, preBrightness |-> brightness,
             preState |-> masterState,
             preOld |-> oldBrightness, preStrip |-> stripBrightness,
             offFrom |-> IF /\ obs.op = "msg"
                            /\ obs.topic = StateTopic
                            /\ obs.payload = FalseWord
                            /\ obs.preState
                           THEN obs.preBrightness
                           ELSE -1]
  /\ UNCHANGED <<leds, oldHour, oldMinute, nCalls>>

NextControl ==
  \E topic \in Topics, payload \in Payloads, tail \in Tails :
     Message(topic, payload, tail) /\ UNCHANGED loopVars

SpecControl == Init /\ [][NextControl]_vars

\* C4: right after every State message 'true' the applied brightness is the
\* value of the most recent Brightness message, or 128 when there was none.
C4_BrightnessKept ==
  (obs.op = "msg" /\ obs.topic = StateTopic /\ obs.payload = TrueWord) =>
    (brightness = configured /\ stripBrightness = configured)

\* C5: whenever the clock is off the brightness applied to the strip is 0.
C5_DarkWhileOff ==
  ~masterState => stripBrightness = 0

\* C10: a State message 'false' handled while on with brightness b, followed
\* at once by a State message 'true', leaves brightness b applied and the
\* clock on.
C10_OffOnRoundTrip ==
  (/\ obs.op = "msg"
   /\ obs.topic = StateTopic
   /\ obs.payload = TrueWord
   /\ obs.offFrom >= 0) =>
    /\ brightness = obs.offFrom
    /\ stripBrightness = obs.offFrom
    /\ masterState

\* the payload of the last message is not one its topic defines
Malformed ==
  \/ obs.topic = StateTopic /\ obs.payload \notin {TrueWord, FalseWord}
  \/ obs.topic = BrightnessTopic /\ PayloadValue(obs.payload) < 0

\* C11: a State message that is neither 'true' nor 'false', and a Brightness
\* message that is not a decimal integer in 0..255, leave masterState,
\* brightness, oldBrightness and the applied brightness as they were.
C11_MalformedIgnored ==
  (obs.op = "msg" /\ Malformed) =>
    /\ masterState = obs.preState
    /\ brightness = obs.preBrightness
    /\ oldBrightness = obs.preOld
    /\ stripBrightness = obs.preStrip

(***************************************************************************)
(* Spec: the whole sketch, setup() and then loop(), with the time source   *)
(* advancing on its own and messages arriving while the MQTT session is    *)
(* established.  StartTime may be held already when setup() begins.        *)
(***************************************************************************)
\* the second after time t
NextSecond(t) ==
  IF t.s < 59 THEN [t EXCEPT !.s = t.s + 1]
  ELSE IF t.m < 59 THEN [t EXCEPT !.s = 0, !.m = t.m + 1]
  ELSE [h |-> (t.h + 1) % 24, m |-> 0, s |-> 0]

\* the messages published while loop() runs
LoopMessages ==
  { <<StateTopic, FalseWord>>, <<StateTopic, TrueWord>>,
    <<BrightnessTopic, Dec(7)>> }

\* the globals as the sketch defines them, setup() about to run pixelTest;
\* connected is left open and no action changes it: nothing in setup() or
\* loop() opens the session, and callback runs only where one exists
InitProgram ==
  /\ leds = [i \in AllPixels |-> PixelOff]
  /\ oldHour = 0
  /\ oldMinute = 0
  /\ brightness = 128
  /\ oldBrightness = 100
  /\ masterState = TRUE
  /\ stripBrightness = 128
  /\ configured = 128
  /\ obs = Idle
  /\ nCalls = 0
  /\ pc = "pixelTest"
  /\ testStep = 1
  /\ now = StartTime
  /\ pastSecond = 0
  /\ args = Unread
  /\ connected \in BOOLEAN
  /\ timer = NoTimer
  /\ watch = NothingSeen
  /\ nMsgs = 0
  /\ nTocks = 0

\* pixelTest: the next setClockTime call of the test pattern
PixelTestStep ==
  /\ pc = "pixelTest"
  /\ Tick(TestPattern[testStep], TestPattern[testStep], TestPattern[testStep])
  /\ testStep' = testStep + 1
  /\ pc' = IF testStep < Len(TestPattern) THEN "pixelTest" ELSE "fill"
  /\ UNCHANGED <<now, pastSecond, args, connected,
                 timer, watch, nMsgs, nTocks>>

\* pixelTest: the closing colorFill(CRGB::Black, 1)
PixelTestFill ==
  /\ pc = "fill"
  /\ \E st \in {colorFill(Fresh(leds), Black)} :
        /\ leds' = st.leds
        /\ obs' = [op |-> "fill", shows |-> st.shows, writes |-> st.writes,
                   lo |-> st.lo, hi |-> st.hi]
  /\ pc' = "start"
  /\ UNCHANGED <<oldHour, oldMinute, brightness, oldBrightness, masterState,
                 stripBrightness, configured, nCalls, testStep, now,
                 pastSecond, args, connected, timer, watch, nMsgs, nTocks>>

\* the rest of setup(): pastSecond = timeClient.getSeconds()
SetupDone ==
  /\ pc = "start"
  /\ pastSecond' = now.s
  /\ pc' = "top"
  /\ UNCHANGED <<leds, oldHour, oldMinute, brightness, oldBrightness,
                 masterState, stripBrightness, configured, obs, nCalls,
                 testStep, now, args, connected, timer, watch, nMsgs, nTocks>>

\* client.loop() with no message to hand over
ClientLoopIdle ==
  /\ watch' = [watch EXCEPT !.serviced = TRUE]
  /\ UNCHANGED <<leds, oldHour, oldMinute, brightness, oldBrightness,
                 masterState, stripBrightness, configured, obs, nCalls,
                 nMsgs>>

\* client.loop() handing one message to callback
ClientLoopDeliver(topic, payload, tail) ==
  /\ connected
  /\ nMsgs < MaxMessages
  /\ Message(topic, payload, tail)
  /\ nMsgs' = nMsgs + 1
  /\ watch' = [watch EXCEPT !.serviced = TRUE]

\* while (!masterState) client.loop();
OffIdle ==
  /\ pc = "top"
  /\ ~masterState
  /\ ClientLoopIdle
  /\ UNCHANGED <<pc, testStep, now, pastSecond, args, connected,
                 timer, nTocks>>

OffDeliver(topic, payload, tail) ==
  /\ pc = "top"
  /\ ~masterState
  /\ ClientLoopDeliver(topic, payload, tail)
  /\ UNCHANGED <<pc, testStep, now, pastSecond, args, connected,
                 timer, nTocks>>

\* masterState holds: loop() goes on to the wait for the next second
EnterWait ==
  /\ pc = "top"
  /\ masterState
  /\ pc' = "wait"
  /\ UNCHANGED <<leds, oldHour, oldMinute, brightness, oldBrightness,
                 masterState, stripBrightness, configured, obs, nCalls,
                 testStep, now, pastSecond, args, connected,
                 timer, watch, nMsgs,
                 nTocks>>

WaitTestBlind ==
  /\ pc = "wait"
  /\ watch' = [watch EXCEPT !.seen = now.s, !.past = pastSecond]
  /\ pc' = IF pastSecond = now.s /\ ~watch.serviced THEN "delay" ELSE "store"
  /\ UNCHANGED <<leds, oldHour, oldMinute, brightness, oldBrightness,
                 masterState, stripBrightness, configured, obs, nCalls,
                 testStep, now, pastSecond, args, connected,
                 timer, nMsgs, nTocks>>

\* while (pastSecond == timeClient.getSeconds())
WaitTest ==
  /\ pc = "wait"
  /\ watch' = [watch EXCEPT !.seen = now.s, !.past = pastSecond]
  /\ pc' = IF pastSecond = now.s THEN "delay" ELSE "store"
  /\ UNCHANGED <<leds, oldHour, oldMinute, brightness, oldBrightness,
                 masterState, stripBrightness, configured, obs, nCalls,
                 testStep, now, pastSecond, args, connected,
                 timer, nMsgs, nTocks>>

\* timeClient.update(); delayWithMQTT(100);
DelayIdle ==
  /\ pc = "delay"
  /\ ClientLoopIdle
  /\ pc' = "wait"
  /\ UNCHANGED <<testStep, now, pastSecond, args, connected, timer, nTocks>>

DelayDeliver(topic, payload, tail) ==
  /\ pc = "delay"
  /\ ClientLoopDeliver(topic, payload, tail)
  /\ pc' = "wait"
  /\ UNCHANGED <<testStep, now, pastSecond, args, connected, timer, nTocks>>

\* pastSecond = timeClient.getSeconds();
Store ==
  /\ pc = "store"
  /\ pastSecond' = now.s
  /\ args' = Unread
  /\ pc' = "read"
  /\ UNCHANGED <<leds, oldHour, oldMinute, brightness, oldBrightness,
                 masterState, stripBrightness, configured, obs, nCalls,
                 testStep, now, connected, timer, watch, nMsgs, nTocks>>

\* one of timeClient.getHours(), getMinutes(), getSeconds() in the argument
\* list of setClockTime; the three are read in no fixed order
Read(f) ==
  /\ pc = "read"
  /\ args[f] = -1
  /\ args' = [args EXCEPT ![f] = now[f]]
  /\ pc' = IF \A g \in {"h", "m", "s"} \ {f} : args[g] # -1
             THEN "render" ELSE "read"
  /\ UNCHANGED <<leds, oldHour, oldMinute, brightness, oldBrightness,
                 masterState, stripBrightness, configured, obs, nCalls,
                 testStep, now, pastSecond, connected,
                 timer, watch, nMsgs, nTocks>>

\* setClockTime(...) with the arguments read, the end of one pass of loop()
Render ==
  /\ pc = "render"
  /\ Tick(args.h, args.m, args.s)
  /\ pc' = "top"
  /\ args' = Unread
  /\ watch' = [watch EXCEPT !.serviced = FALSE, !.rendered = TRUE]
  /\ UNCHANGED <<testStep, now, pastSecond, connected, timer, nMsgs, nTocks>>

\* the time source moves on by one second
Tock ==
  /\ pc \notin {"pixelTest", "fill"}
  /\ nTocks < MaxTocks
  /\ now' = NextSecond(now)
  /\ nTocks' = nTocks + 1
  /\ UNCHANGED <<leds, oldHour, oldMinute, brightness, oldBrightness,
                 masterState, stripBrightness, configured, obs, nCalls, pc,
                 testStep, pastSecond, args, connected, timer, watch, nMsgs>>

Next ==
  \/ PixelTestStep
  \/ PixelTestFill
  \/ SetupDone
  \/ OffIdle
  \/ \E msg \in LoopMessages, tail \in Tails : OffDeliver(msg[1], msg[2], tail)
  \/ EnterWait
  \/ WaitTest
  \/ DelayIdle
  \/ \E msg \in LoopMessages, tail \in Tails :
        DelayDeliver(msg[1], msg[2], tail)
  \/ Store
  \/ \E f \in {"h", "m", "s"} : Read(f)
  \/ Render
  \/ Tock

Spec == InitProgram /\ [][Next]_vars

\* pixels, trackers and pastSecond are what a render pass changes
Rendered == <<leds, pastSecond, oldMinute, oldHour>>

\* C12: loop() calls setClockTime only after it has seen a second that
\* differs from pastSecond; while the polls return pastSecond no pixel is
\* written, pastSecond and the trackers stay, and the poll is retried.
C12_NoRenderWithoutNewSecond ==
  [][/\ (pc = "render" /\ pc' = "top") => watch.seen # watch.past
     /\ (pc = "wait" /\ now.s = pastSecond) =>
          (pc' \in {"wait", "delay"} /\ UNCHANGED Rendered)
     /\ (pc = "delay") =>
          (pc' \in {"delay", "wait"} /\ UNCHANGED Rendered)]_vars

\* a pass of loop() rendered after at least one poll had to be retried
C12_Witness ==
  /\ obs.op = "tick"
  /\ obs.inLoop
  /\ obs.serviced
  /\ obs.seen # obs.seenPast
  /\ obs.second = obs.seen

\* the time held k seconds after time t
RECURSIVE TimeAfter(_, _)
TimeAfter(t, k) == IF k = 0 THEN t ELSE TimeAfter(NextSecond(t), k - 1)

\* C14: the hour, minute and second loop() passes to setClockTime are a
\* time the time source held at one instant.
C14_ConsistentSnapshot ==
  (obs.op = "tick" /\ obs.inLoop) =>
    \E k \in 0..nTocks :
       TimeAfter(StartTime, k) =
         [h |-> obs.hour, m |-> obs.minute, s |-> obs.second]

\* C15: while masterState is false loop() makes no call to setClockTime,
\* writes no pixel and changes neither pastSecond nor the trackers.
C15_NothingWhileOff ==
  [][(~masterState /\ ~masterState') =>
       (~(pc = "render" /\ pc' = "top") /\ UNCHANGED Rendered)]_vars

\* C16: after each render pass pastSecond equals the second just rendered.
C16_PastSecondIsRendered ==
  (obs.op = "tick" /\ obs.inLoop) => obs.past = obs.second

\* C17: between two consecutive render passes of loop() client.loop() is
\* called at least once.
C17_ServicedBetweenRenders ==
  (obs.op = "tick" /\ obs.inLoop /\ ~obs.first) => obs.serviced

\* the pixels of digit position p
RangeOf(p) == digitMap[p]..(digitMap[p + 1] - 1)

\* C19: a tick changes pixels only inside the ranges of the positions it
\* redraws: none of 70..213 when the minute is the rendered one, none of
\* 140..213 when only the hour is, never 210..213; callback changes none.
C19_Frame ==
  [][/\ obs'.op = "tick" =>
          /\ \A a \in AllPixels :
                leds'[a] # leds[a] =>
                  \E k \in 1..Len(obs'.calls) : a \in RangeOf(obs'.calls[k][1])
          /\ obs'.minute = obs'.preMinute =>
                \A a \in 70..213 : leds'[a] = leds[a]
          /\ (obs'.minute # obs'.preMinute /\ obs'.hour = obs'.preHour) =>
                \A a \in 140..213 : leds'[a] = leds[a]
          /\ \A a \in 210..213 : leds'[a] = leds[a]
     /\ obs'.op = "msg" => leds' = leds]_vars

\* loop() redrew the two second positions only, the hour is still shown
C19_Witness ==
  /\ obs.op = "tick"
  /\ obs.inLoop
  /\ obs.minute = obs.preMinute
  /\ Len(obs.calls) = 2
  /\ obs.calls[1][1] = 0 /\ obs.calls[2][1] = 1
  /\ ShowsGlyph(leds, 0, obs.second % 10)
  /\ ShowsGlyph(leds, 5, 1)
  /\ leds[210] = PixelOff

\* C20: every setClockTime call with hour, minute and second in 0..99 calls
\* setClockSegment with a segment in 0..5 and a digit in 0..9, reads
\* numberMap at columns 0..49 and digitMap at 0..6 only, and writes pixels
\* 0..NUM_LEDS-1 only.
C20_IndexSafety ==
  obs.op = "tick" =>
    /\ \A k \in 1..Len(obs.calls) :
          /\ obs.calls[k][1] \in 0..5
          /\ obs.calls[k][1] + 1 \in 0..6
          /\ obs.calls[k][2] \in 0..9
    /\ obs.tracker \in 0..(MapWidth - 1)
    /\ obs.lo >= 0
    /\ obs.hi <= NUM_LEDS - 1

\* pixelTest rendered 88:88:88: column 32 was read, pixel 209 written
C20_Witness ==
  /\ obs.op = "tick"
  /\ obs.hour = 88 /\ obs.second = 88
  /\ Len(obs.calls) = 6
  /\ obs.tracker = 32
  /\ obs.lo = 0
  /\ obs.hi = 209

\* the processor keeps executing loop(): it stays at none of its statements
\* for ever, the off loop (pc = "top" while masterState is false) apart.
\* Each conjunct is WF_vars of the step taken at that statement, whose
\* enabling condition is the pc value and which always leaves it.
LoopRuns ==
  /\ []<>~(pc = "top" /\ masterState)
  /\ []<>(pc # "wait")
  /\ []<>(pc # "delay")
  /\ []<>(pc # "store")
  /\ []<>(pc # "read")
  /\ []<>(pc # "render")

\* the program keeps running, and the second of the time source keeps
\* changing for as long as the bound on the seconds allows
SpecLive == InitProgram /\ [][Next]_vars /\ LoopRuns /\ WF_vars(Tock)

\* callback has just handled a State message reading 'true' while
\* masterState was false; the time source can still show a new second
TurnedOn ==
  /\ obs.op = "msg"
  /\ obs.topic = StateTopic
  /\ StringOf(obs.payload, obs.tail) = TrueWord
  /\ ~obs.preState
  /\ args = Unread
  /\ pc \in {"top", "wait"}
  /\ (nTocks < MaxTocks \/ now.s # pastSecond)

C22_ConnectedWhenServiced ==
  watch.serviced => connected

(***************************************************************************)
(* SpecRTC: setClockTime of the RTC sketch (src/unnamed/part_000).  The    *)
(* digit offsets of that sketch are placeholders, so a call is recorded by *)
(* the arguments it hands to setClockSegment, in the order of the calls.   *)
(***************************************************************************)
\* the seconds the RTC is read at
RtcSecondSamples == {0, 5, 9, 10, 23, 34, 45, 58, 59}

\* void setClockTime(Integer hour, Integer minute, Integer second)
rtcSetClockTime(hour, minute, second) ==
  LET secondRight == second % 10
      secondLeft  == (second \div 10) % 10
      minuteRight == second % 10
      minuteLeft  == (second \div 10) % 10
      hourRight   == second % 10
      hourLeft    == (second \div 10) % 10
  IN  << <<0, secondRight>>, <<1, secondLeft>>,
         <<2, minuteRight>>, <<3, minuteLeft>>,
         <<4, hourRight>>, <<5, hourLeft>> >>

InitRTC ==
  /\ leds = [i \in AllPixels |-> PixelOff]
  /\ oldHour = 0
  /\ oldMinute = 0
  /\ brightness = 128
  /\ oldBrightness = 100
  /\ masterState = TRUE
  /\ stripBrightness = 128
  /\ configured = 128
  /\ obs = Idle
  /\ nCalls = 0
  /\ LoopAtRest

\* loop() of the RTC sketch calls setClockTime with the time it read
RtcTick(hour, minute, second) ==
  /\ nCalls < MaxCalls
  /\ obs' = [op |-> "rtc", hour |-> hour, minute |-> minute,
             second |-> second,
             calls |-> rtcSetClockTime(hour, minute, second)]
  /\ nCalls' = nCalls + 1
  /\ UNCHANGED <<leds, oldHour, oldMinute, brightness, oldBrightness,
                 masterState, stripBrightness, configured>>
  /\ UNCHANGED loopVars

NextRTC ==
  \E hour \in HourSamples, minute \in MinuteSamples,
     second \in RtcSecondSamples : RtcTick(hour, minute, second)

SpecRTC == InitRTC /\ [][NextRTC]_vars

\* C24: in the RTC sketch setClockTime hands positions 0 and 1 the units and
\* tens of second, positions 2 and 3 those of minute, and positions 4 and 5
\* those of hour.
C24_RtcDecomposition ==
  obs.op = "rtc" =>
    obs.calls = << <<0, obs.second % 10>>, <<1, (obs.second \div 10) % 10>>,
                   <<2, obs.minute % 10>>, <<3, (obs.minute \div 10) % 10>>,
                   <<4, obs.hour % 10>>, <<5, (obs.hour \div 10) % 10>> >>

(***************************************************************************)
(* SpecDelay: delayWithMQTT alone.  millis() and currentMillis are 32-bit  *)
(* unsigned values, kept as two 16-bit halves [hi, lo]; elapsed is the     *)
(* time that has really passed since the call was entered.                 *)
(***************************************************************************)
\* the greatest elapsed time a wait is followed to
MaxWait == 110

\* 2^16, the base of the two halves of a 32-bit value
W16 == 65536

U32(hi, lo) == [hi |-> hi, lo |-> lo]

\* x + n in unsigned long arithmetic, modulo 2^32
Add32(x, n) ==
  [hi |-> (x.hi + (x.lo + n) \div W16) % W16, lo |-> (x.lo + n) % W16]

\* x < y for unsigned long values
Less32(x, y) == x.hi < y.hi \/ (x.hi = y.hi /\ x.lo < y.lo)

\* 2^32 - k
Top(k) == U32(W16 - 1, W16 - k)

\* the values of millis() at which delayWithMQTT is entered
MillisSamples ==
  { U32(0, 0), U32(0, 1000), U32(W16 \div 2, 0),
    Top(150), Top(102), Top(101), Top(100), Top(50), Top(1) }

\* the argument of delayWithMQTT; loop() passes 100
DelaySamples == {1, 100}

\* the milliseconds one call of client.loop() takes
Advances == {0, 1, 3}

\* all that delayWithMQTT leaves alone
notTimer ==
  <<leds, oldHour, oldMinute, brightness, oldBrightness, masterState,
    stripBrightness, configured, obs, nCalls, pc, testStep, now, pastSecond,
    args, connected, watch, nMsgs, nTocks>>

\* unsigned long currentMillis = millis();
DelayEnter(delay, start) ==
  /\ timer.pc = "none"
  /\ timer' = [pc |-> "test", delay |-> delay, currentMillis |-> start,
               millis |-> start, elapsed |-> 0]
  /\ UNCHANGED notTimer

\* while (currentMillis + delay > millis())
DelayWhile ==
  /\ timer.pc = "test"
  /\ timer' = [timer EXCEPT !.pc =
                 IF Less32(timer.millis,
                           Add32(timer.currentMillis, timer.delay))
                   THEN "body" ELSE "returned"]
  /\ UNCHANGED notTimer

\* client.loop(); in the body of the loop, taking adv milliseconds
DelayClientLoop(adv) ==
  /\ timer.pc = "body"
  /\ timer.elapsed + adv <= MaxWait
  /\ timer' = [timer EXCEPT !.pc = "test",
                            !.millis = Add32(timer.millis, adv),
                            !.elapsed = timer.elapsed + adv]
  /\ UNCHANGED notTimer

NextDelay ==
  \/ \E delay \in DelaySamples, start \in MillisSamples :
        DelayEnter(delay, start)
  \/ DelayWhile
  \/ \E adv \in Advances : DelayClientLoop(adv)

SpecDelay == Init /\ [][NextDelay]_vars

\* C25: delayWithMQTT(d) does not return before d milliseconds have passed
\* since entry and does not start another iteration once they have, at
\* whatever value of millis() it is entered and however far millis()
\* advances in an iteration, the wrap of the counter included.
C25_BoundedWait ==
  /\ timer.pc = "returned" => timer.elapsed >= timer.delay
  /\ timer.pc = "body" => timer.elapsed < timer.delay

====
